---------------------------- MODULE Spec2Model ----------------------------
(***************************************************************************)
(* Model of the Deka AI decoding page (src/unnamed/part_000).              *)
(*                                                                         *)
(* A JavaScript string is a sequence of UTF-16 code units (naturals).      *)
(* A confidence is an exact rational [n, d] in lowest terms; the source    *)
(* computes the same expressions in IEEE doubles.                          *)
(***************************************************************************)
EXTENDS Integers, Sequences, FiniteSets, TLC

VARIABLES
    value,            \* runDecoders: the `value` argument
    active,           \* runDecoders: the `active` argument (as a set of ids)
    candidates,       \* runDecoders: base64Result .. reverseResult
    pushed,           \* runDecoders: `results` just before the final sort
    returned,         \* runDecoders: the returned list
    pc,               \* position of the harness that calls a pure function
    plain,            \* Caesar round trip: the plaintext p
    shift,            \* Caesar round trip: the encrypting shift s
    cipher,           \* Caesar round trip: p with every letter shifted by s
    caesarOut,        \* Caesar round trip: what applyCaesar returned
    bits,             \* Binary decoding: the trimmed input
    binaryOut,        \* Binary decoding: what applyBinary returned
    input,            \* Page: useState input
    activeStrategies, \* Page: useState activeStrategies
    results,          \* Page: useState results
    isDecoding,       \* Page: useState isDecoding
    timers            \* Page: the pending setTimeout callbacks (their closures)

vars == <<value, active, candidates, pushed, returned, pc, plain, shift, cipher,
          caesarOut,
          bits, binaryOut, input, activeStrategies, results, isDecoding, timers>>

runVars == <<value, active, candidates, pushed, returned>>
caesarVars == <<plain, shift, cipher, caesarOut>>
binaryVars == <<bits, binaryOut>>
pageVars == <<input, activeStrategies, results, isDecoding, timers>>

-----------------------------------------------------------------------------
(* Strings *)

\* The printable ASCII characters, code units 32..126 in order (the grave
\* accent, 96, is spelled out: it is no character of a TLA+ string).
AsciiTable ==
    <<" ", "!", "\"", "#", "$", "%", "&", "'", "(", ")", "*", "+", ",", "-",
      ".", "/", "0", "1", "2", "3", "4", "5", "6", "7", "8", "9", ":", ";",
      "<", "=", ">", "?", "@", "A", "B", "C", "D", "E", "F", "G", "H", "I",
      "J", "K", "L", "M", "N", "O", "P", "Q", "R", "S", "T", "U", "V", "W",
      "X", "Y", "Z", "[", "\\", "]", "^", "_", "grave", "a", "b", "c", "d", "e",
      "f", "g", "h", "i", "j", "k", "l", "m", "n", "o", "p", "q", "r", "s",
      "t", "u", "v", "w", "x", "y", "z", "{", "|", "}", "~">>

\* The code unit of a one-character ASCII string.
Code(ch) == 31 + (CHOOSE i \in 1..Len(AsciiTable) : AsciiTable[i] = ch)

\* The JavaScript string spelled by a tuple of one-character strings.
S(chars) == [i \in 1..Len(chars) |-> Code(chars[i])]

Range(s) == {s[i] : i \in 1..Len(s)}

Reverse(s) == [i \in 1..Len(s) |-> s[Len(s) + 1 - i]]

\* String.prototype.includes
Includes(s, frag) ==
    \E i \in 1..(Len(s) - Len(frag) + 1) : SubSeq(s, i, i + Len(frag) - 1) = frag

\* s.replace(new RegExp(frag, "g"), to) for a fragment without regex
\* metacharacters: non-overlapping matches, leftmost first.
RECURSIVE ReplaceAll(_, _, _)
ReplaceAll(s, frag, to) ==
    IF Len(s) < Len(frag) THEN s
    ELSE IF SubSeq(s, 1, Len(frag)) = frag
         THEN to \o ReplaceAll(SubSeq(s, Len(frag) + 1, Len(s)), frag, to)
         ELSE <<s[1]>> \o ReplaceAll(Tail(s), frag, to)

\* WhiteSpace and LineTerminator of ECMAScript: what \s matches and what
\* trim() strips.
IsSpace(c) ==
    \/ c \in {9, 10, 11, 12, 13, 32, 160, 5760, 8232, 8233, 8239, 8287, 12288, 65279}
    \/ c \in 8192..8202

RECURSIVE TrimStart(_)
TrimStart(s) == IF s # <<>> /\ IsSpace(Head(s)) THEN TrimStart(Tail(s)) ELSE s

\* String.prototype.trim
Trim(s) == Reverse(TrimStart(Reverse(TrimStart(s))))

\* s.replace(/\s+/g, "")
StripSpace(s) == SelectSeq(s, LAMBDA c : ~IsSpace(c))

\* s.split(/\s+/) of a trimmed, non-empty string
RECURSIVE SplitWords(_, _)
SplitWords(s, cur) ==
    IF s = <<>> THEN (IF cur = <<>> THEN <<>> ELSE <<cur>>)
    ELSE IF IsSpace(Head(s))
         THEN (IF cur = <<>> THEN <<>> ELSE <<cur>>) \o SplitWords(Tail(s), <<>>)
         ELSE SplitWords(Tail(s), Append(cur, Head(s)))

IsUpper(c) == c \in 65..90
IsLower(c) == c \in 97..122
IsAsciiLetter(c) == IsUpper(c) \/ IsLower(c)
IsDigit(c) == c \in 48..57
IsHexDigit(c) == IsDigit(c) \/ c \in 65..70 \/ c \in 97..102

\* \p{L} for the code units below U+0700 (Basic Latin, Latin-1, Latin
\* Extended, Arabic); the model's strings stay within U+0000..U+06FF plus
\* U+FFFD and the surrogates, none of which above U+06FF is a letter.
IsLetter(c) ==
    \/ IsAsciiLetter(c)
    \/ c \in {170, 181, 186}
    \/ c \in 192..214 \/ c \in 216..246 \/ c \in 248..705
    \/ c \in 1568..1610 \/ c \in 1646..1647 \/ c \in 1649..1747 \/ c = 1749

Count(s, P(_)) == Len(SelectSeq(s, P))

-----------------------------------------------------------------------------
(* Exact rationals for confidences *)

RECURSIVE GCD(_, _)
GCD(a, b) == IF b = 0 THEN a ELSE GCD(b, a % b)

Rat(n, d) == LET g == GCD(n, d) IN [n |-> n \div g, d |-> d \div g]
RLeq(a, b) == a.n * b.d <= b.n * a.d
RLess(a, b) == a.n * b.d < b.n * a.d
RAdd(a, b) == Rat(a.n * b.d + b.n * a.d, a.d * b.d)
RMul(a, b) == Rat(a.n * b.n, a.d * b.d)
RMin(a, b) == IF RLeq(a, b) THEN a ELSE b
RMax(a, b) == IF RLeq(a, b) THEN b ELSE a

-----------------------------------------------------------------------------
(* Static tables *)

STRATEGY_ORDER ==
    <<"smart", "base64", "rot13", "caesar", "hex", "binary", "url", "reverse">>

StrategyIds == Range(STRATEGY_ORDER)

\* CORRECTIONS, in Object.entries order: <<wrong, right>>.
CORRECTIONS ==
    << <<<<1589, 1591, 1606, 1575, 1593, 1610>>,
         <<1575, 1589, 1591, 1606, 1575, 1593, 1610>>>>,
       <<<<1583, 1603, 1575, 1569>>, <<1584, 1603, 1575, 1569>>>>,
       <<<<1575, 1604, 1584, 1603, 1575, 1569, 32,
           1575, 1604, 1575, 1589, 1591, 1606, 1575, 1593, 1609>>,
         <<1575, 1604, 1584, 1603, 1575, 1569, 32,
           1575, 1604, 1575, 1589, 1591, 1606, 1575, 1593, 1610>>>>,
       <<<<1578, 1593, 1604, 1605, 32, 1575, 1604, 1575, 1604, 1607>>,
         <<1578, 1593, 1604, 1605, 32, 1575, 1604, 1570, 1604, 1577>>>>,
       <<<<1605, 1604, 1601, 32, 1605, 1588, 1601, 1585>>,
         <<1605, 1604, 1601, 32, 1605, 1615, 1588, 1601, 1617, 1614, 1585>>>>,
       <<<<1578, 1588, 1601, 1585>>, <<1578, 1588, 1601, 1610, 1585>>>>,
       <<S(<<"t", "e", "h">>), S(<<"t", "h", "e">>)>>,
       <<S(<<"a", "d", "r", "e", "s", "s">>),
         S(<<"a", "d", "d", "r", "e", "s", "s">>)>>,
       <<S(<<"r", "e", "c", "i", "e", "v", "e">>),
         S(<<"r", "e", "c", "e", "i", "v", "e">>)>>,
       <<S(<<"s", "e", "p", "e", "r", "a", "t", "e">>),
         S(<<"s", "e", "p", "a", "r", "a", "t", "e">>)>> >>

arabicStopList ==
    { <<1575, 1604>>, <<1605, 1606>>, <<1593, 1604, 1609>>,
      <<1575, 1604, 1609>>, <<1593, 1606>>, <<1601, 1610>>, <<1607, 1608>>,
      <<1607, 1610>>, <<1605, 1593>>, <<1607, 1584, 1575>>,
      <<1607, 1584, 1607>>, <<1584, 1604, 1603>> }

\* The character class of the vowel count in scoreReadable.
IsVowel(c) ==
    c \in {97, 101, 105, 111, 117, 65, 69, 73, 79, 85,
           1575, 1571, 1573, 1570, 1569, 1572, 1610, 1609}

-----------------------------------------------------------------------------
(* scoreReadable and autoCorrect *)

IsControl(c) == c \in 0..31 \/ c = 127

scoreReadable(s) ==
    IF Trim(s) = <<>> THEN Rat(0, 1)
    ELSE
      LET printable == Count(s, LAMBDA c : ~IsControl(c))
          ratio == Rat(printable, Len(s))
          vowels == Count(s, IsVowel)
          words == SplitWords(Trim(s), <<>>)
          stopMatches ==
              Count(words, LAMBDA w : SelectSeq(w, IsLetter) \in arabicStopList)
          wordRatio == RMin(Rat(stopMatches, Len(words)), Rat(1, 2))
          vowelRatio == Rat(vowels, Len(s))
          blend == RAdd(RAdd(RMul(Rat(45, 100), ratio),
                             RMul(Rat(35, 100), vowelRatio)),
                        RMul(Rat(35, 100), wordRatio))
      IN RMax(Rat(0, 1), RMin(Rat(1, 1), blend))

\* The forEach of autoCorrect from entry k on; `notes` holds the indices of
\* the entries that fired (one note per firing).
RECURSIVE CorrectFrom(_, _, _)
CorrectFrom(k, corrected, notes) ==
    IF k > Len(CORRECTIONS) THEN [corrected |-> corrected, corrections |-> notes]
    ELSE IF Includes(corrected, CORRECTIONS[k][1])
         THEN CorrectFrom(k + 1,
                          ReplaceAll(corrected, CORRECTIONS[k][1], CORRECTIONS[k][2]),
                          Append(notes, k))
         ELSE CorrectFrom(k + 1, corrected, notes)

autoCorrect(s) == CorrectFrom(1, s, <<>>)

-----------------------------------------------------------------------------
(* Byte decoding: UTF-8, Base64, percent escapes *)

\* A Unicode code point as UTF-16 code units.
ToUtf16(cp) ==
    IF cp < 65536 THEN <<cp>>
    ELSE <<55296 + ((cp - 65536) \div 1024), 56320 + ((cp - 65536) % 1024)>>

\* The UTF-8 decoder over bytes[i..]: `need` continuation bytes are still
\* expected, within lo..hi for the next one, `cp` is the code point so far.
\* A malformed sequence yields U+FFFD and sets err; the offending byte is
\* processed again as the start of a sequence.
RECURSIVE Utf8From(_, _, _, _, _, _, _, _)
Utf8From(bytes, i, need, cp, lo, hi, out, err) ==
    IF i > Len(bytes)
    THEN IF need = 0 THEN [out |-> out, err |-> err]
         ELSE [out |-> Append(out, 65533), err |-> TRUE]
    ELSE
      LET b == bytes[i] IN
      IF need = 0
      THEN CASE b <= 127 -> Utf8From(bytes, i + 1, 0, 0, 128, 191, Append(out, b), err)
             [] b \in 194..223 -> Utf8From(bytes, i + 1, 1, b - 192, 128, 191, out, err)
             [] b \in 224..239 ->
                  Utf8From(bytes, i + 1, 2, b - 224,
                           IF b = 224 THEN 160 ELSE 128,
                           IF b = 237 THEN 159 ELSE 191, out, err)
             [] b \in 240..244 ->
                  Utf8From(bytes, i + 1, 3, b - 240,
                           IF b = 240 THEN 144 ELSE 128,
                           IF b = 244 THEN 143 ELSE 191, out, err)
             [] OTHER -> Utf8From(bytes, i + 1, 0, 0, 128, 191, Append(out, 65533), TRUE)
      ELSE IF b \notin lo..hi
           THEN Utf8From(bytes, i, 0, 0, 128, 191, Append(out, 65533), TRUE)
           ELSE IF need = 1
                THEN Utf8From(bytes, i + 1, 0, 0, 128, 191,
                              out \o ToUtf16(cp * 64 + (b - 128)), err)
                ELSE Utf8From(bytes, i + 1, need - 1, cp * 64 + (b - 128),
                              128, 191, out, err)

Utf8Decode(bytes) == Utf8From(bytes, 1, 0, 0, 128, 191, <<>>, FALSE)

\* new TextDecoder().decode(bytes): a leading byte order mark is dropped,
\* malformed sequences become U+FFFD.
TextDecoderDecode(bytes) ==
    LET body == IF Len(bytes) >= 3 /\ SubSeq(bytes, 1, 3) = <<239, 187, 191>>
                THEN SubSeq(bytes, 4, Len(bytes)) ELSE bytes
    IN Utf8Decode(body).out

\* decodeURIComponent(escape(input)): escape writes a code unit above 255
\* as %uXXXX, which decodeURIComponent rejects, and a malformed UTF-8
\* sequence is rejected too; the catch returns the input.
toUtf8(s) ==
    IF \E i \in 1..Len(s) : s[i] > 255 THEN s
    ELSE LET d == Utf8Decode(s) IN IF d.err THEN s ELSE d.out

IsBase64Char(c) == IsAsciiLetter(c) \/ IsDigit(c) \/ c = 43 \/ c = 47

\* base64Pattern.test(s)
base64Pattern(s) ==
    LET pad == IF Len(s) >= 2 /\ s[Len(s)] = 61 /\ s[Len(s) - 1] = 61 THEN 2
               ELSE IF Len(s) >= 1 /\ s[Len(s)] = 61 THEN 1 ELSE 0
        data == SubSeq(s, 1, Len(s) - pad)
    IN /\ \A i \in 1..Len(data) : IsBase64Char(data[i])
       /\ \/ pad = 0 /\ Len(data) % 4 \in {0, 2}
          \/ pad = 2 /\ Len(data) % 4 = 2
          \/ pad = 1 /\ Len(data) % 4 = 3

Base64Value(c) ==
    CASE IsUpper(c) -> c - 65
      [] IsLower(c) -> c - 97 + 26
      [] IsDigit(c) -> c - 48 + 52
      [] c = 43 -> 62
      [] OTHER -> 63

RECURSIVE Base64Bytes(_)
Base64Bytes(data) ==
    LET v(i) == Base64Value(data[i]) IN
    CASE Len(data) >= 4 ->
           LET n == v(1) * 262144 + v(2) * 4096 + v(3) * 64 + v(4)
           IN <<n \div 65536, (n \div 256) % 256, n % 256>>
              \o Base64Bytes(SubSeq(data, 5, Len(data)))
      [] Len(data) = 3 ->
           LET n == (v(1) * 4096 + v(2) * 64 + v(3)) \div 4
           IN <<n \div 256, n % 256>>
      [] Len(data) = 2 -> <<(v(1) * 64 + v(2)) \div 16>>
      [] OTHER -> <<>>

\* safeAtob on a string base64Pattern accepts: atob drops the padding and
\* the bits left over, and does not throw on such a string.
safeAtob(s) == Base64Bytes(SelectSeq(s, IsBase64Char))

HexValue(c) ==
    CASE IsDigit(c) -> c - 48
      [] c \in 65..70 -> c - 55
      [] OTHER -> c - 87

IsEscape(s, k) ==
    /\ k + 2 <= Len(s)
    /\ s[k] = 37 /\ IsHexDigit(s[k + 1]) /\ IsHexDigit(s[k + 2])

EscapeByte(s, k) == HexValue(s[k + 1]) * 16 + HexValue(s[k + 2])

\* decodeURIComponent(s) from index k on: [ok, out]; ok = FALSE is URIError.
RECURSIVE DecodeFrom(_, _, _)
DecodeFrom(s, k, out) ==
    IF k > Len(s) THEN [ok |-> TRUE, out |-> out]
    ELSE IF s[k] # 37 THEN DecodeFrom(s, k + 1, Append(out, s[k]))
    ELSE IF ~IsEscape(s, k) THEN [ok |-> FALSE, out |-> out]
    ELSE
      LET b == EscapeByte(s, k)
          n == CASE b <= 127 -> 1
                 [] b \in 192..223 -> 2
                 [] b \in 224..239 -> 3
                 [] b \in 240..247 -> 4
                 [] OTHER -> 0
      IN IF n = 0 \/ ~(\A j \in 0..(n - 1) : IsEscape(s, k + 3 * j))
         THEN [ok |-> FALSE, out |-> out]
         ELSE LET octets == [j \in 1..n |-> EscapeByte(s, k + 3 * (j - 1))]
                  d == Utf8Decode(octets)
              IN IF d.err THEN [ok |-> FALSE, out |-> out]
                 ELSE DecodeFrom(s, k + 3 * n, out \o d.out)

decodeURIComponent(s) == DecodeFrom(s, 1, <<>>)

\* isLikelyHex on a trimmed string: /^([0-9a-fA-F]{2}\s*)+$/
RECURSIVE isLikelyHex(_)
isLikelyHex(s) ==
    /\ Len(s) >= 2 /\ IsHexDigit(s[1]) /\ IsHexDigit(s[2])
    /\ LET rest == TrimStart(SubSeq(s, 3, Len(s)))
       IN rest = <<>> \/ isLikelyHex(rest)

\* isLikelyBinary
isLikelyBinary(s) ==
    /\ s # <<>>
    /\ \A i \in 1..Len(s) : s[i] \in {48, 49} \/ IsSpace(s[i])
    /\ Len(StripSpace(s)) % 8 = 0

RECURSIVE BinaryValue(_)
BinaryValue(digits) ==
    IF digits = <<>> THEN 0
    ELSE 2 * BinaryValue(SubSeq(digits, 1, Len(digits) - 1))
         + (digits[Len(digits)] - 48)

\* s.match(/[01]{8}/g) mapped through parseInt(byte, 2): the runs of eight
\* adjacent digits, leftmost first, without overlap.
RECURSIVE MatchBytes(_)
MatchBytes(s) ==
    IF Len(s) < 8 THEN <<>>
    ELSE IF \A i \in 1..8 : s[i] \in {48, 49}
         THEN <<BinaryValue(SubSeq(s, 1, 8))>> \o MatchBytes(SubSeq(s, 9, Len(s)))
         ELSE MatchBytes(Tail(s))

\* The replace callback of rot13 and applyCaesar.
ShiftLetters(s, k) ==
    [i \in 1..Len(s) |->
        IF IsAsciiLetter(s[i])
        THEN LET base == IF s[i] <= 90 THEN 65 ELSE 97
             IN ((s[i] - base + k) % 26) + base
        ELSE s[i]]

rot13(s) == ShiftLetters(s, 13)

-----------------------------------------------------------------------------
(* runDecoders *)

\* A DecodeResult.  title: the fixed text of a transform (named by its
\* strategy), the shift a Caesar title reports, and whether the title is
\* suffixed "+ correction" or wrapped by the smart analysis.  subtitle: the
\* fixed text of a transform, or the joined correction notes.  corrections:
\* the notes, <<>> when the field is absent.
Title(text, n) == [text |-> text, shift |-> n, corrected |-> FALSE, smart |-> FALSE]
Subtitle(text) == [text |-> text, notes |-> <<>>]

DecodeResult(id, title, output, confidence) ==
    [id |-> id, title |-> title, subtitle |-> Subtitle(id),
     output |-> output, confidence |-> confidence, corrections |-> <<>>]

\* A transform returns <<>> for null and <<result>> otherwise.

applyBase64(trimmed) ==
    LET stripped == StripSpace(trimmed) IN
    IF ~base64Pattern(stripped) THEN <<>>
    ELSE LET output == toUtf8(safeAtob(stripped)) IN
         IF Trim(output) = <<>> THEN <<>>
         ELSE <<DecodeResult("base64", Title("base64", 0), output,
                             scoreReadable(output))>>

applyRot13(trimmed) ==
    LET output == rot13(trimmed) IN
    IF output = trimmed THEN <<>>
    ELSE <<DecodeResult("rot13", Title("rot13", 0), output, scoreReadable(output))>>

\* The loop of applyCaesar with >= for >: the last best shift wins.
RECURSIVE CaesarLoopLastWins(_, _, _)
CaesarLoopLastWins(trimmed, k, best) ==
    IF k >= 26 THEN best
    ELSE LET output == ShiftLetters(trimmed, k)
             score == scoreReadable(output)
         IN IF RLeq(best.bestScore, score)
            THEN CaesarLoopLastWins(trimmed, k + 1,
                            [bestScore |-> score, bestShift |-> k, bestOutput |-> output])
            ELSE CaesarLoopLastWins(trimmed, k + 1, best)

\* The for loop of applyCaesar from `k` on.
RECURSIVE CaesarLoop(_, _, _)
CaesarLoop(trimmed, k, best) ==
    IF k >= 26 THEN best
    ELSE LET output == ShiftLetters(trimmed, k)
             score == scoreReadable(output)
         IN IF RLess(best.bestScore, score)
            THEN CaesarLoop(trimmed, k + 1,
                            [bestScore |-> score, bestShift |-> k, bestOutput |-> output])
            ELSE CaesarLoop(trimmed, k + 1, best)

applyCaesar(trimmed) ==
    LET best == CaesarLoop(trimmed, 1,
                    [bestScore |-> Rat(0, 1), bestShift |-> 0, bestOutput |-> trimmed])
    IN IF RLess(best.bestScore, Rat(35, 100)) THEN <<>>
       ELSE <<DecodeResult("caesar", Title("caesar", best.bestShift),
                           best.bestOutput, best.bestScore)>>

applyHex(trimmed) ==
    IF ~isLikelyHex(trimmed) THEN <<>>
    ELSE LET digits == StripSpace(trimmed)
             bytes == [i \in 1..(Len(digits) \div 2) |->
                          HexValue(digits[2 * i - 1]) * 16 + HexValue(digits[2 * i])]
             output == TextDecoderDecode(bytes)
         IN IF bytes = <<>> THEN <<>>
            ELSE <<DecodeResult("hex", Title("hex", 0), output, scoreReadable(output))>>

applyBinary(trimmed) ==
    IF ~isLikelyBinary(trimmed) THEN <<>>
    ELSE LET chars == MatchBytes(trimmed) IN
         IF chars = <<>> THEN <<>>
         ELSE LET output == toUtf8(chars) IN
              <<DecodeResult("binary", Title("binary", 0), output,
                             scoreReadable(output))>>

applyUrl(trimmed) ==
    LET spaced == [i \in 1..Len(trimmed) |-> IF trimmed[i] = 43 THEN 32 ELSE trimmed[i]]
        decoded == decodeURIComponent(spaced)
    IN IF ~decoded.ok \/ decoded.out = trimmed THEN <<>>
       ELSE <<DecodeResult("url", Title("url", 0), decoded.out,
                           scoreReadable(decoded.out))>>

applyReverse(trimmed) ==
    LET reversed == Reverse(trimmed) IN
    IF reversed = trimmed THEN <<>>
    ELSE <<DecodeResult("reverse", Title("reverse", 0), reversed,
                        scoreReadable(reversed))>>

\* pushResult without the lookup of an existing id.
pushResultNoDedup(list, result) == Append(list, result)

HasId(list, id) == \E i \in 1..Len(list) : list[i].id = id

\* pushResult, on a result that is not null
pushResult(list, result) ==
    IF HasId(list, result.id) THEN list ELSE Append(list, result)

\* considerCorrection that forgets the +0.1 boost of the confidence.
considerCorrectionNoBoost(list, text, base) ==
    LET c == autoCorrect(text) IN
    IF c.corrections = <<>> THEN list
    ELSE pushResult(list,
           [base EXCEPT
              !.id = IF base.id = "smart" THEN base.id ELSE base.id \o "-corrected",
              !.title = [base.title EXCEPT !.corrected = TRUE],
              !.subtitle = [text |-> "corrections", notes |-> c.corrections],
              !.output = c.corrected,
              !.corrections = c.corrections])

considerCorrection(list, text, base) ==
    LET c == autoCorrect(text) IN
    IF c.corrections = <<>> THEN list
    ELSE pushResult(list,
           [base EXCEPT
              !.id = IF base.id = "smart" THEN base.id ELSE base.id \o "-corrected",
              !.title = [base.title EXCEPT !.corrected = TRUE],
              !.subtitle = [text |-> "corrections", notes |-> c.corrections],
              !.output = c.corrected,
              !.confidence = RMin(RAdd(base.confidence, Rat(1, 10)), Rat(98, 100)),
              !.corrections = c.corrections])

\* consider without the test active.includes(id).
considerAnyStrategy(st, enabled, id, result, weight) ==
    IF result = <<>> THEN st
    ELSE [results |->
             considerCorrection(pushResult(st.results, result[1]),
                                result[1].output, result[1]),
          smartConfidence |->
             IF "smart" \in enabled
             THEN Append(st.smartConfidence, [result |-> result[1], weight |-> weight])
             ELSE st.smartConfidence]

\* consider, on the pair st = [results, smartConfidence]
consider(st, enabled, id, result, weight) ==
    IF result = <<>> \/ id \notin enabled THEN st
    ELSE [results |->
             considerCorrection(pushResult(st.results, result[1]),
                                result[1].output, result[1]),
          smartConfidence |->
             IF "smart" \in enabled
             THEN Append(st.smartConfidence, [result |-> result[1], weight |-> weight])
             ELSE st.smartConfidence]

\* base64Result .. reverseResult: every transform runs, enabled or not.
Transforms(trimmed) ==
    [base64 |-> applyBase64(trimmed), rot13 |-> applyRot13(trimmed),
     caesar |-> applyCaesar(trimmed), hex |-> applyHex(trimmed),
     binary |-> applyBinary(trimmed), url |-> applyUrl(trimmed),
     reverse |-> applyReverse(trimmed)]

\* The seven consider calls, in the order of the source.
ConsiderAll(c, enabled) ==
    LET s0 == [results |-> <<>>, smartConfidence |-> <<>>]
        s1 == consider(s0, enabled, "base64", c.base64, Rat(12, 10))
        s2 == consider(s1, enabled, "rot13", c.rot13, Rat(8, 10))
        s3 == consider(s2, enabled, "caesar", c.caesar, Rat(11, 10))
        s4 == consider(s3, enabled, "hex", c.hex, Rat(12, 10))
        s5 == consider(s4, enabled, "binary", c.binary, Rat(1, 1))
        s6 == consider(s5, enabled, "url", c.url, Rat(9, 10))
    IN consider(s6, enabled, "reverse", c.reverse, Rat(6, 10))

\* Array.prototype.sort with the comparator (a, b) => b.key - a.key: a
\* stable sort, descending by key, of a list of [key, item] pairs.
RECURSIVE InsertDesc(_, _)
InsertDesc(sorted, x) ==
    IF sorted = <<>> THEN <<x>>
    ELSE IF RLess(Head(sorted).key, x.key) THEN <<x>> \o sorted
         ELSE <<Head(sorted)>> \o InsertDesc(Tail(sorted), x)

RECURSIVE StableSortDesc(_)
StableSortDesc(list) ==
    IF list = <<>> THEN <<>>
    ELSE InsertDesc(StableSortDesc(SubSeq(list, 1, Len(list) - 1)), list[Len(list)])

Items(pairs) == [i \in 1..Len(pairs) |-> pairs[i].item]

\* The map of the smart step: score = confidence * weight.
SmartScore(entry) == RMul(entry.result.confidence, entry.weight)

\* The smart shortlist without its sort: the first three considered.
SmartTopUnsorted(smartConfidence) ==
    SubSeq(smartConfidence, 1,
           IF Len(smartConfidence) < 3 THEN Len(smartConfidence) ELSE 3)

\* smartConfidence.map(...).sort((a, b) => b.score - a.score).slice(0, 3)
SmartTop(smartConfidence) ==
    LET sorted == Items(StableSortDesc(
                     [i \in 1..Len(smartConfidence) |->
                        [key |-> SmartScore(smartConfidence[i]),
                         item |-> smartConfidence[i]]]))
    IN SubSeq(sorted, 1, IF Len(sorted) < 3 THEN Len(sorted) ELSE 3)

\* sorted.forEach((entry, index) => pushResult(...)) from index k on (k is
\* 1-based, the id carries k - 1).
RECURSIVE PushSmart(_, _, _)
PushSmart(list, sorted, k) ==
    IF k > Len(sorted) THEN list
    ELSE PushSmart(
           pushResult(list,
             [sorted[k].result EXCEPT
                !.id = "smart" \o ToString(k - 1),
                !.title = [sorted[k].result.title EXCEPT !.smart = TRUE],
                !.confidence = RMin(RMul(sorted[k].result.confidence, Rat(11, 10)),
                                    Rat(99, 100))]),
           sorted, k + 1)

SmartStep(st, enabled) ==
    IF "smart" \in enabled
    THEN PushSmart(st.results, SmartTop(st.smartConfidence), 1)
    ELSE st.results

baseResult(trimmed) ==
    [id |-> "smart", title |-> Title("no clear pattern", 0),
     subtitle |-> Subtitle("try other formats"), output |-> trimmed,
     confidence |-> Rat(1, 10), corrections |-> <<>>]

\* runDecoders without its fallback.
FallbackSkipped(list, trimmed) == list

FallbackStep(list, trimmed) ==
    IF Len(list) = 0
    THEN considerCorrection(pushResult(list, baseResult(trimmed)), trimmed,
                            baseResult(trimmed))
    ELSE list

\* A sort by confidence that is not stable: equal confidences come out in
\* the reverse of their insertion order.
SortResultsTiesReversed(list) ==
    Items(StableSortDesc([i \in 1..Len(list) |->
                            [key |-> list[Len(list) + 1 - i].confidence,
                             item |-> list[Len(list) + 1 - i]]]))

\* results.sort((a, b) => b.confidence - a.confidence)
SortResults(list) ==
    Items(StableSortDesc([i \in 1..Len(list) |->
                            [key |-> list[i].confidence, item |-> list[i]]]))

\* `results` when runDecoders reaches its last statement, from the
\* transforms' results on.
RankingSteps(c, trimmed, enabled) ==
    FallbackStep(SmartStep(ConsiderAll(c, enabled), enabled), trimmed)

runDecoders(v, enabled) ==
    LET trimmed == Trim(v) IN
    IF trimmed = <<>> THEN <<>>
    ELSE SortResults(RankingSteps(Transforms(trimmed), trimmed, enabled))

-----------------------------------------------------------------------------
(* Calling runDecoders *)

\* The longest input built from InputAlphabet.
MaxInputLen == 3

InputAlphabet == Range(S(<<" ", "e", "h", "t">>))

\* Inputs chosen for the transforms they make applicable.
Samples ==
    { S(<<"d", "G", "V", "o">>),                          \* Base64 of "teh"
      S(<<"a", "G", "k", "=">>),                          \* Base64 of "hi"
      S(<<"g", "r", "u">>),                               \* ROT13 of "teh"
      S(<<"7", "4", "6", "5", "6", "8">>),                \* hex of "teh"
      S(<<"7", "4", " ", "6", "5">>),                     \* hex with a gap
      S(<<"c", "3", "a", "9">>),                          \* hex of U+00E9
      S(<<"f", "f">>),                                    \* hex, not UTF-8
      S(<<"0", "0">>),                                    \* hex of U+0000
      S(<<"0", "1", "0", "0", "0", "0", "0", "1">>),      \* binary of "A"
      S(<<"0", "1", "0", "0", " ", "0", "0", "0", "1">>), \* the same, spaced
      S(<<"t", "%", "6", "5", "h">>),                     \* URL escape of "teh"
      S(<<"%", "C", "3", "%", "A", "9">>),                \* URL escape of U+00E9
      S(<<"a", "+", "b">>),                               \* "+" for a space
      S(<<"%">>),                                         \* malformed escape
      S(<<"a">>), S(<<"1">>), S(<<"U", "r", "y", "y", "b">>),
      <<1605, 1606>>,                                     \* an Arabic stop word
      <<1583, 1603, 1575, 1569>>,                         \* a CORRECTIONS key
      <<9, 116, 101, 104, 10>> }                          \* "teh" in whitespace

Inputs == Samples \cup UNION {[1..n -> InputAlphabet] : n \in 0..MaxInputLen}

NoCandidates ==
    [base64 |-> <<>>, rot13 |-> <<>>, caesar |-> <<>>, hex |-> <<>>,
     binary |-> <<>>, url |-> <<>>, reverse |-> <<>>]

RunIdle ==
    /\ value = <<>> /\ active = {} /\ candidates = NoCandidates
    /\ pushed = <<>> /\ returned = <<>>
CaesarIdle == plain = <<>> /\ shift = 0 /\ cipher = <<>> /\ caesarOut = <<>>
BinaryIdle == bits = <<>> /\ binaryOut = <<>>
PageIdle ==
    /\ input = <<>>
    /\ activeStrategies = <<"smart", "base64", "rot13", "hex">>
    /\ results = <<>>
    /\ isDecoding = FALSE
    /\ timers = <<>>

\* A call of runDecoders.  The function reads `active` first in consider,
\* after every transform has run on the trimmed input, so the call draws the
\* text at the start and the enabled set where it is first read (or at the
\* early return, which never reads it).
InitRun ==
    /\ pc = "call"
    /\ value \in Inputs
    /\ active = {} /\ candidates = NoCandidates
    /\ pushed = <<>> /\ returned = <<>>
    /\ CaesarIdle /\ BinaryIdle /\ PageIdle

\* if (!trimmed) return [];
EarlyReturn ==
    /\ pc = "call"
    /\ Trim(value) = <<>>
    /\ \E enabled \in SUBSET StrategyIds : active' = enabled
    /\ returned' = <<>>
    /\ pc' = "done"
    /\ UNCHANGED <<value, candidates, pushed, caesarVars, binaryVars, pageVars>>

\* const base64Result = applyBase64(); ... const reverseResult = applyReverse();
ApplyTransforms ==
    /\ pc = "call"
    /\ Trim(value) # <<>>
    /\ candidates' = Transforms(Trim(value))
    /\ pc' = "applied"
    /\ UNCHANGED <<value, active, pushed, returned, caesarVars, binaryVars, pageVars>>

\* The consider calls, the smart step, the fallback and the final sort.
Rank ==
    /\ pc = "applied"
    /\ \E enabled \in SUBSET StrategyIds :
          /\ active' = enabled
          /\ pushed' = RankingSteps(candidates, Trim(value), enabled)
    /\ returned' = SortResults(pushed')
    /\ pc' = "done"
    /\ UNCHANGED <<value, candidates, caesarVars, binaryVars, pageVars>>

NextRun == EarlyReturn \/ ApplyTransforms \/ Rank

SpecRun == InitRun /\ [][NextRun]_vars

-----------------------------------------------------------------------------
(* Properties of runDecoders *)

Done == pc = "done"
NonBlank == Trim(value) # <<>>
TransformIds == StrategyIds \ {"smart"}

\* The enabled transforms that returned a result: what consider keeps.
Considered == {s \in TransformIds \cap active : candidates[s] # <<>>}

Returned == Range(returned)
IndexIn(list, r) == CHOOSE k \in 1..Len(list) : list[k] = r
HasFragment(text) == \E k \in 1..Len(CORRECTIONS) : Includes(text, CORRECTIONS[k][1])
SmartIds == {"smart" \o ToString(i) : i \in 0..6}

\* C1: the returned list is ordered by non-increasing confidence, holds
\* exactly the results pushed, and results of equal confidence keep the
\* order in which they were pushed.
C1_SortedStable ==
    Done =>
      /\ Len(returned) = Len(pushed)
      /\ Returned = Range(pushed)
      /\ \A i, j \in 1..Len(returned) :
            i < j =>
              /\ RLeq(returned[j].confidence, returned[i].confidence)
              /\ returned[i].confidence = returned[j].confidence
                   => IndexIn(pushed, returned[i]) < IndexIn(pushed, returned[j])

\* Two results of equal confidence and one of another confidence came back.
C1_Witness ==
    /\ Done
    /\ \E i, j, k \in 1..Len(returned) :
          /\ i < j
          /\ returned[i].confidence = returned[j].confidence
          /\ returned[k].confidence # returned[i].confidence

\* C2: no two returned results share an id; where the fallback's corrected
\* variant was pushed under the id of the fallback, the first one pushed
\* (the uncorrected fallback) is the one kept.
C2_UniqueIds ==
    Done =>
      /\ \A i, j \in 1..Len(returned) : i < j => returned[i].id # returned[j].id
      /\ (NonBlank /\ Considered = {}) =>
            \A r \in Returned : r.id = "smart" => r = baseResult(Trim(value))

\* A second result was pushed under an id already present: the fallback of
\* an input that holds a fragment of CORRECTIONS.
C2_Witness ==
    Done /\ NonBlank /\ Considered = {} /\ HasFragment(Trim(value)) /\ returned # <<>>

\* C3: the returned list is empty exactly when the trimmed input is empty.
C3_EmptyIffBlank == Done => (returned = <<>> <=> ~NonBlank)

\* A non-blank input for which nothing is enabled came back with one result.
C3_Witness == Done /\ NonBlank /\ active = {} /\ Len(returned) = 1

\* C4: every returned result comes from an enabled transform (itself, its
\* corrected variant, or a smart pick of it when smart is enabled), or is
\* the fallback of a run in which no enabled transform returned a result.
C4_OnlyEnabled ==
    (Done /\ NonBlank) =>
      \A r \in Returned :
        \/ r.id \in TransformIds \cap active /\ r.title.text = r.id
        \/ \E s \in TransformIds \cap active :
              r.id = s \o "-corrected" /\ r.title.text = s
        \/ /\ r.id \in SmartIds
           /\ "smart" \in active
           /\ r.title.text \in TransformIds \cap active
        \/ r.id = "smart" /\ Considered = {}

\* A transform that is not enabled returned a result, and an enabled one
\* did too.
C4_Witness ==
    /\ Done
    /\ \E s \in TransformIds \ active : candidates[s] # <<>>
    /\ Considered # {}

\* C5: a considered result whose output holds a fragment of CORRECTIONS
\* comes back together with its "-corrected" variant (corrected output,
\* confidence + 0.1 capped at 0.98, notes); one whose output holds none has
\* no such variant.
C5_CorrectedVariant ==
    Done =>
      \A s \in Considered :
        LET r == candidates[s][1]
            variants == {q \in Returned : q.id = s \o "-corrected"}
        IN IF HasFragment(r.output)
           THEN /\ r \in Returned
                /\ \E q \in variants :
                      /\ q.output = autoCorrect(r.output).corrected
                      /\ q.output # r.output
                      /\ q.confidence = RMin(RAdd(r.confidence, Rat(1, 10)), Rat(98, 100))
                      /\ q.corrections # <<>>
           ELSE variants = {}

\* A considered result came back with its corrected variant.
C5_Witness ==
    /\ Done
    /\ \E s \in Considered :
          /\ HasFragment(candidates[s][1].output)
          /\ \E q \in Returned : q.id = s \o "-corrected"

\* The weights of the smart step as the specification lists them.
SmartWeight ==
    [base64 |-> Rat(12, 10), hex |-> Rat(12, 10), caesar |-> Rat(11, 10),
     binary |-> Rat(1, 1), url |-> Rat(9, 10), rot13 |-> Rat(8, 10),
     reverse |-> Rat(6, 10)]

WeightedScore(s) == RMul(candidates[s][1].confidence, SmartWeight[s])

\* C6: with smart enabled and k considered results the list holds exactly
\* the picks smart0 .. smart(min(3,k)-1); the pick of rank i copies the
\* considered result ranked i-th by confidence * weight, with confidence
\* * 1.1 capped at 0.99, distinct picks copy distinct results, and the
\* result copied is still in the list.  Without smart there is no pick.
C6_SmartPicks ==
    (Done /\ NonBlank) =>
      LET k == Cardinality(Considered)
          n == IF "smart" \in active THEN (IF k < 3 THEN k ELSE 3) ELSE 0
          pick(i) == CHOOSE q \in Returned : q.id = "smart" \o ToString(i)
          source(i) == pick(i).title.text
      IN /\ {r.id : r \in Returned} \cap SmartIds
               = {"smart" \o ToString(i) : i \in 0..(n - 1)}
         /\ \A i \in 0..(n - 1) :
               /\ source(i) \in Considered
               /\ pick(i).output = candidates[source(i)][1].output
               /\ pick(i).confidence
                    = RMin(RMul(candidates[source(i)][1].confidence, Rat(11, 10)),
                           Rat(99, 100))
               /\ candidates[source(i)][1] \in Returned
               /\ Cardinality({t \in Considered :
                      RLess(WeightedScore(source(i)), WeightedScore(t))}) <= i
               /\ Cardinality({t \in Considered :
                      RLeq(WeightedScore(source(i)), WeightedScore(t))}) >= i + 1
         /\ \A i, j \in 0..(n - 1) : i # j => source(i) # source(j)

\* Smart is enabled and more than three results were considered, the first
\* considered not being the best.
C6_Witness ==
    /\ Done /\ "smart" \in active
    /\ Cardinality(Considered) > 3
    /\ \E q \in Returned : q.id = "smart0" /\ q.title.text # pushed[1].title.text

\* C7: when no enabled transform returned a result, the list holds the
\* fallback (id smart, the trimmed input, confidence 0.1) and, when the
\* trimmed input holds a fragment of CORRECTIONS, its corrected variant too.
C7_FallbackCorrected ==
    (Done /\ NonBlank /\ Considered = {}) =>
      /\ baseResult(Trim(value)) \in Returned
      /\ HasFragment(Trim(value)) =>
            /\ Len(returned) = 2
            /\ \E q \in Returned :
                  /\ q.output = autoCorrect(Trim(value)).corrected
                  /\ q.corrections # <<>>

-----------------------------------------------------------------------------
(* The Caesar round trip: encrypt a plaintext, then run applyCaesar *)

\* The longest plaintext.
MaxPlainLen == 3

PlainAlphabet == Range(S(<<"a", "b", "e", "t", "U">>))

PlainTexts == UNION {[1..n -> PlainAlphabet] : n \in 1..MaxPlainLen}

InitCaesar ==
    /\ pc = "encrypt"
    /\ plain \in PlainTexts
    /\ shift \in 1..25
    /\ cipher = <<>> /\ caesarOut = <<>>
    /\ RunIdle /\ BinaryIdle /\ PageIdle

Encrypt ==
    /\ pc = "encrypt"
    /\ cipher' = ShiftLetters(plain, shift)
    /\ pc' = "detect"
    /\ UNCHANGED <<plain, shift, caesarOut, runVars, binaryVars, pageVars>>

Detect ==
    /\ pc = "detect"
    /\ caesarOut' = applyCaesar(Trim(cipher))
    /\ pc' = "done"
    /\ UNCHANGED <<plain, shift, cipher, runVars, binaryVars, pageVars>>

NextCaesar == Encrypt \/ Detect

SpecCaesar == InitCaesar /\ [][NextCaesar]_vars

Vowels(s) == Count(s, IsVowel)

\* C8 as stated: Caesar detection on p shifted by s reports the shift
\* 26 - s and the output p.
C8_CaesarRecovers ==
    Done =>
      /\ caesarOut # <<>>
      /\ caesarOut[1].title.shift = 26 - shift
      /\ caesarOut[1].output = plain

\* C8 as amended: detection on p shifted by s always returns a result,
\* whose output has at least as many vowels as p, and it reports the shift
\* 26 - s and the output p exactly when p has more vowels than the output
\* of every smaller shift and at least as many as that of every larger one.
C8_CaesarRecoversWhenBest ==
    Done =>
      /\ caesarOut # <<>>
      /\ Vowels(caesarOut[1].output) >= Vowels(plain)
      /\ (caesarOut[1].title.shift = 26 - shift /\ caesarOut[1].output = plain)
           <=> \A k \in 1..25 :
                 /\ k < 26 - shift => Vowels(ShiftLetters(cipher, k)) < Vowels(plain)
                 /\ k > 26 - shift => Vowels(ShiftLetters(cipher, k)) <= Vowels(plain)

\* The plaintext was recovered although a larger shift gives an output with
\* as many vowels.
C8_Witness ==
    /\ Done
    /\ caesarOut # <<>>
    /\ caesarOut[1].output = plain
    /\ caesarOut[1].title.shift = 26 - shift
    /\ \E k \in 1..25 :
          k > 26 - shift /\ Vowels(ShiftLetters(cipher, k)) = Vowels(plain)

-----------------------------------------------------------------------------
(* The Binary transform on strings of digits and spaces *)

\* The longest input of the Binary transform.
MaxBitsLen == 9

BitAlphabet == Range(S(<<"0", "1", " ">>))

InitBinary ==
    /\ pc = "type"
    /\ bits = <<>> /\ binaryOut = <<>>
    /\ RunIdle /\ CaesarIdle /\ PageIdle

\* The text grows by one character.
TypeBit ==
    /\ pc = "type"
    /\ Len(bits) < MaxBitsLen
    /\ \E c \in BitAlphabet : bits' = Append(bits, c)
    /\ UNCHANGED <<pc, binaryOut, runVars, caesarVars, pageVars>>

\* const binaryResult = applyBinary(); in a run on a text that is not blank
DecodeBinary ==
    /\ pc = "type"
    /\ Trim(bits) # <<>>
    /\ binaryOut' = applyBinary(Trim(bits))
    /\ pc' = "done"
    /\ UNCHANGED <<bits, runVars, caesarVars, pageVars>>

NextBinary == TypeBit \/ DecodeBinary

SpecBinary == InitBinary /\ [][NextBinary]_vars

\* The digits of s, whitespace ignored, as 8-bit bytes.
BytesOfDigits(s) ==
    LET digits == StripSpace(s)
    IN [i \in 1..(Len(digits) \div 8) |-> BinaryValue(SubSeq(digits, 8 * i - 7, 8 * i))]

\* C10: on an input the applicability check accepts, the Binary transform
\* returns the bytes of its digits, whitespace ignored wherever it occurs,
\* one character code per 8 digits, read as UTF-8.
C10_BinaryIgnoresWhitespace ==
    (Done /\ isLikelyBinary(Trim(bits))) =>
      /\ binaryOut # <<>>
      /\ binaryOut[1].output = toUtf8(BytesOfDigits(Trim(bits)))

-----------------------------------------------------------------------------
(* The Page component *)

\* The texts the user enters, and the strategies the user toggles.
PageInputs == {<<>>, S(<<" ">>), S(<<"t", "e", "h">>), S(<<"h", "e", "t">>)}
PageToggles == {"smart", "reverse"}

InitPage ==
    /\ pc = "page"
    /\ PageIdle
    /\ RunIdle /\ CaesarIdle /\ BinaryIdle

IndexOf(seq, x) == CHOOSE i \in 1..Len(seq) : seq[i] = x

\* One insertion of the stable sort below: id goes before the first item
\* that comes later in STRATEGY_ORDER.
RECURSIVE InsertInOrder(_, _)
InsertInOrder(prev, id) ==
    IF prev = <<>> THEN <<id>>
    ELSE IF IndexOf(STRATEGY_ORDER, id) < IndexOf(STRATEGY_ORDER, Head(prev))
         THEN <<id>> \o prev
         ELSE <<Head(prev)>> \o InsertInOrder(Tail(prev), id)

\* list.sort((a, b) => STRATEGY_ORDER.indexOf(a) - STRATEGY_ORDER.indexOf(b)):
\* a stable sort of any list of strategy ids.
RECURSIVE SortByCatalog(_)
SortByCatalog(list) ==
    IF list = <<>> THEN <<>>
    ELSE InsertInOrder(SortByCatalog(SubSeq(list, 1, Len(list) - 1)), list[Len(list)])

\* What no handler of the page writes.
PageFrame == UNCHANGED <<pc, runVars, caesarVars, binaryVars>>

\* onChange of the textarea, onload of a dropped or chosen file
setInput(text) ==
    /\ input' = text
    /\ UNCHANGED <<activeStrategies, results, isDecoding, timers>>
    /\ PageFrame

\* toggleStrategy without the sort of [...prev, id].
toggleStrategyAppends(id) ==
    /\ activeStrategies' =
          IF id \in Range(activeStrategies)
          THEN SelectSeq(activeStrategies, LAMBDA item : item # id)
          ELSE Append(activeStrategies, id)
    /\ UNCHANGED <<input, results, isDecoding, timers>>
    /\ PageFrame

toggleStrategy(id) ==
    /\ activeStrategies' =
          IF id \in Range(activeStrategies)
          THEN SelectSeq(activeStrategies, LAMBDA item : item # id)
          ELSE SortByCatalog(Append(activeStrategies, id))
    /\ UNCHANGED <<input, results, isDecoding, timers>>
    /\ PageFrame

\* The activate-all button, rendered while some strategy is not active.
activateAll ==
    /\ Len(activeStrategies) # Len(STRATEGY_ORDER)
    /\ activeStrategies' = STRATEGY_ORDER
    /\ UNCHANGED <<input, results, isDecoding, timers>>
    /\ PageFrame

\* handleDecode: the callback scheduled keeps the input and the strategies
\* of the render that created it.
handleDecode ==
    /\ IF Trim(input) = <<>>
       THEN /\ results' = <<>>
            /\ UNCHANGED <<input, activeStrategies, isDecoding, timers>>
       ELSE /\ isDecoding' = TRUE
            /\ timers' = Append(timers, [input |-> input,
                                         activeStrategies |-> activeStrategies])
            /\ UNCHANGED <<input, activeStrategies, results>>
    /\ PageFrame

\* A click on the decode button whatever isDecoding is.
ClickDecodeNeverDisabled == handleDecode

\* A click on the decode button, which is disabled while isDecoding.
ClickDecode == ~isDecoding /\ handleDecode

\* The callback of setTimeout(..., 140); equal delays fire in order.
TimerFires ==
    /\ timers # <<>>
    /\ results' = runDecoders(Head(timers).input, Range(Head(timers).activeStrategies))
    /\ isDecoding' = FALSE
    /\ timers' = Tail(timers)
    /\ UNCHANGED <<input, activeStrategies>>
    /\ PageFrame

EditInput == \E text \in PageInputs : setInput(text)
Toggle == \E id \in PageToggles : toggleStrategy(id)

NextPage == EditInput \/ Toggle \/ activateAll \/ ClickDecode \/ TimerFires

SpecPage == InitPage /\ [][NextPage]_vars

Spec == SpecPage

\* C9: at most one run of the pipeline is pending at any time, and one is
\* pending exactly while isDecoding, so that no trigger while isDecoding
\* schedules a second run.
C9_OnePendingRun ==
    /\ Len(timers) <= 1
    /\ isDecoding <=> Len(timers) = 1

\* A run is pending and the input and the strategies were changed after it
\* was scheduled.
C9_Witness ==
    /\ isDecoding
    /\ Len(timers) = 1
    /\ timers[1].input # input
    /\ timers[1].activeStrategies # activeStrategies

-----------------------------------------------------------------------------
(* The strategy pills alone: every strategy toggled, no decoding *)

ToggleAny == \E id \in StrategyIds : toggleStrategy(id)

NextStrategies == ToggleAny \/ activateAll

SpecStrategies == InitPage /\ [][NextStrategies]_vars

NoDuplicates(list) ==
    \A i, j \in 1..Len(list) : i < j => list[i] # list[j]

InCatalogOrder(list) ==
    \A i, j \in 1..Len(list) :
       i < j => IndexOf(STRATEGY_ORDER, list[i]) < IndexOf(STRATEGY_ORDER, list[j])

\* What a step that is toggleStrategy(id) does to the set of enabled ids.
ToggleEffect ==
    \A id \in StrategyIds :
       toggleStrategy(id) =>
          /\ id \in Range(activeStrategies) =>
                /\ Range(activeStrategies') = Range(activeStrategies) \ {id}
                /\ Len(activeStrategies') = Len(activeStrategies) - 1
          /\ id \notin Range(activeStrategies) =>
                /\ Range(activeStrategies') = Range(activeStrategies) \cup {id}
                /\ Len(activeStrategies') = Len(activeStrategies) + 1

\* C11: after any toggles and activate-alls from [smart, base64, rot13, hex]
\* the enabled list has no duplicate and is in the order of STRATEGY_ORDER;
\* toggling an enabled id removes exactly that id, toggling a disabled id
\* adds exactly that id.
C11_CanonicalStrategies ==
    /\ [](NoDuplicates(activeStrategies) /\ InCatalogOrder(activeStrategies))
    /\ [][ToggleEffect]_vars

\* smart was toggled off and caesar and url were toggled on, landing between
\* ids that were enabled before them.
C11_Witness ==
    activeStrategies = <<"base64", "rot13", "caesar", "hex", "url">>

=============================================================================
